---- MODULE Spec2Model ----
\* A model of the ieu worker pool (src/src/lib.rs): Pool::new, Pool::execute,
\* the worker thread loop, Drop for Pool and the process-wide execute.
\* Every atomic access of PoolInner is one step of the thread that makes it.
\* thread::park / Thread::unpark are modelled by their token: unpark sets the
\* token, park blocks until the token is set and consumes it.
\* SpecPanic adds a closure that panics, SpecSpurious a return of park without
\* the token.
EXTENDS Naturals, FiniteSets, Sequences, TLC

\* ------------------------------------------------------------------ bounds
MaxWorkers == 2
MaxN == 2
MaxRounds == 2
\* Returns of thread::park without a permit in one run.
MaxSpurious == 1

\* tests::test_pool and loom_tests::test_pool build Pool::new(4).
TestPoolSize == 4

MaxPool == IF MaxWorkers > TestPoolSize THEN MaxWorkers ELSE TestPoolSize
Workers == 1 .. MaxPool
Callers == 1 .. 2
Rounds == 1 .. MaxRounds
Indices == 0 .. MaxN
NoEnv == MaxPool + 1

VARIABLES
    size,       \* Pool::new's size, the number of spawned worker threads
    created,    \* the pool exists (GLOBAL holds Some(pool), or Pool::new returned)
    envIeu,     \* IEU_NUM_THREADS: its text, "unset" when the variable is absent
    envRayon,   \* RAYON_NUM_THREADS: its text, "unset" when the variable is absent
    cpus,       \* num_cpus::get()
    func,       \* PoolInner.func: 0 is null, r > 0 the box of round r's closure
    max,        \* PoolInner.max
    cnt,        \* PoolInner.cnt
    finished,   \* PoolInner.finished
    notif,      \* the bool inside PoolInner.notif_mutex
    lockm,      \* holder of PoolInner.lock_mutex, 0 when free
    glock,      \* holder of the GLOBAL mutex, 0 when free
    token,      \* per worker: the park token
    freed,      \* the Box<PoolInner> has been deallocated
    heapOk,     \* FALSE once a write through a dangling pointer damaged the heap
    wpc,        \* per worker: position in the thread closure
    wfunc,      \* per worker: the local func
    wmax,       \* per worker: the local max
    widx,       \* per worker: the local cnt of the claim being invoked
    cpc,        \* per caller: position in execute / drop
    cn,         \* per caller: the argument num
    cptr,       \* per caller: the round (closure box) of its execute call
    upk,        \* per caller: next index of the `for thread in &self.threads` loop
    nrounds,    \* number of closures boxed so far
    calls,      \* calls[r][i]: how often round r's closure was invoked with i
    wcalls,     \* per worker: invocations made since the last publication
    counter,    \* the AtomicUsize the test closures increment
    total,      \* sum of num over the execute calls made so far
    budget,     \* execute calls the program still makes
    lateWake,   \* an unpark of the current round found its thread not yet parked
    spur        \* returns of thread::park without a permit so far

vars == << size, created, envIeu, envRayon, cpus, func, max, cnt, finished, notif,
           lockm, glock, token, freed, heapOk, wpc, wfunc, wmax, widx, cpc, cn,
           cptr, upk, nrounds, calls, wcalls, counter, total, budget, lateWake,
           spur >>

poolVars == << size, created, envIeu, envRayon, cpus >>
innerVars == << func, max, cnt, finished, notif >>
workerVars == << wpc, wfunc, wmax, widx >>
callerVars == << cpc, cn, cptr, upk >>
ghostVars == << nrounds, calls, wcalls, counter, total, budget, lateWake, spur >>

Live == 1 .. size

\* ------------------------------------------------------------ construction
\* Pool::new: every field of PoolInner and `size` threads, each about to park.
NewInner ==
    /\ func = 0 /\ max = 0 /\ cnt = 0 /\ finished = 0 /\ notif = FALSE
    /\ lockm = 0

Spawned(n) == [w \in Workers |-> IF w <= n THEN "park" ELSE "unspawned"]

InitCommon ==
    /\ NewInner
    /\ glock = 0
    /\ token = [w \in Workers |-> FALSE]
    /\ freed = FALSE /\ heapOk = TRUE
    /\ wfunc = [w \in Workers |-> 0]
    /\ wmax = [w \in Workers |-> 0]
    /\ widx = [w \in Workers |-> 0]
    /\ cpc = [c \in Callers |-> "idle"]
    /\ cn = [c \in Callers |-> 0]
    /\ cptr = [c \in Callers |-> 0]
    /\ upk = [c \in Callers |-> 0]
    /\ nrounds = 0
    /\ calls = [r \in Rounds |-> [i \in Indices |-> 0]]
    /\ wcalls = [w \in Workers |-> 0]
    /\ counter = 0 /\ total = 0
    /\ lateWake = FALSE
    /\ spur = 0

\* A program that owns a pool: `let mut pool = Pool::new(size)`.
Init ==
    /\ InitCommon
    /\ size \in 0 .. MaxWorkers
    /\ created = TRUE
    /\ envIeu = "unset" /\ envRayon = "unset" /\ cpus = 1
    /\ wpc = Spawned(size)
    /\ budget = MaxRounds

\* The tests' pool, used for one call: `Pool::new(4)`, one execute, drop.
InitUnder ==
    /\ InitCommon
    /\ size = TestPoolSize
    /\ created = TRUE
    /\ envIeu = "unset" /\ envRayon = "unset" /\ cpus = 1
    /\ wpc = Spawned(size)
    /\ budget = 1

\* A program that only uses the process-wide execute: GLOBAL holds None.
InitGlobal ==
    /\ InitCommon
    /\ size = 0
    /\ created = FALSE
    /\ envIeu \in {"0", "unset"}
    /\ envRayon \in {"1", "unset"}
    /\ cpus = 2
    /\ wpc = Spawned(0)
    /\ budget = MaxRounds

\* ------------------------------------------------------------- worker loop
\* thread::park(): returns once the token is set, consuming it.
Park(w) ==
    /\ wpc[w] = "park"
    /\ token[w]
    /\ token' = [token EXCEPT ![w] = FALSE]
    /\ wpc' = [wpc EXCEPT ![w] = "load_func"]
    /\ UNCHANGED << poolVars, innerVars, lockm, glock, freed, heapOk, wfunc, wmax,
                    widx, callerVars, ghostVars >>

\* let func = inner.func.load(SeqCst); match func.is_null()
LoadFunc(w) ==
    /\ wpc[w] = "load_func"
    /\ wfunc' = [wfunc EXCEPT ![w] = func]
    /\ wpc' = [wpc EXCEPT ![w] = IF func = 0 THEN "fin" ELSE "load_max"]
    /\ UNCHANGED << poolVars, innerVars, lockm, glock, token, freed, heapOk, wmax,
                    widx, callerVars, ghostVars >>

\* let max = inner.max.load(SeqCst)
LoadMax(w) ==
    /\ wpc[w] = "load_max"
    /\ wmax' = [wmax EXCEPT ![w] = max]
    /\ wpc' = [wpc EXCEPT ![w] = "claim"]
    /\ UNCHANGED << poolVars, innerVars, lockm, glock, token, freed, heapOk, wfunc,
                    widx, callerVars, ghostVars >>

\* let cnt = inner.cnt.fetch_add(1, SeqCst); if cnt >= max { .. break }
ClaimOffByOne(w) ==
    /\ wpc[w] = "claim"
    /\ cnt' = cnt + 1
    /\ wpc' = [wpc EXCEPT ![w] = IF cnt > wmax[w] THEN "fin" ELSE "call"]
    /\ widx' = [widx EXCEPT ![w] = IF cnt > wmax[w] THEN 0 ELSE cnt]
    /\ UNCHANGED << poolVars, func, max, finished, notif, lockm, glock, token, freed,
                    heapOk, wfunc, wmax, callerVars, ghostVars >>

Claim(w) ==
    /\ wpc[w] = "claim"
    /\ cnt' = cnt + 1
    /\ wpc' = [wpc EXCEPT ![w] = IF cnt >= wmax[w] THEN "fin" ELSE "call"]
    /\ widx' = [widx EXCEPT ![w] = IF cnt >= wmax[w] THEN 0 ELSE cnt]
    /\ UNCHANGED << poolVars, func, max, finished, notif, lockm, glock, token, freed,
                    heapOk, wfunc, wmax, callerVars, ghostVars >>

\* (unsafe { &*func })(cnt): the closure of the loaded box runs with the claimed
\* index; the test closures do cnt.fetch_add(1).
Call(w) ==
    /\ wpc[w] = "call"
    /\ calls' = [calls EXCEPT ![wfunc[w]][widx[w]] = @ + 1]
    /\ wcalls' = [wcalls EXCEPT ![w] = @ + 1]
    /\ counter' = counter + 1
    /\ wpc' = [wpc EXCEPT ![w] = "claim"]
    /\ widx' = [widx EXCEPT ![w] = 0]
    /\ UNCHANGED << poolVars, innerVars, lockm, glock, token, freed, heapOk, wfunc,
                    wmax, callerVars, nrounds, total, budget, lateWake, spur >>

\* Where a worker goes when its turn of the loop ends: `break` out of the inner
\* loop parks again, `break` in the null branch leaves the thread closure.
LoopEnd(w) == IF wfunc[w] = 0 THEN "done" ELSE "park"

\* let old = inner.finished.fetch_add(1, SeqCst); if old == size - 1 { .. }
\* (both branches of the match have this code; a thread exists only when
\* size >= 1, so size - 1 does not wrap). The locals func and max are dead once
\* the worker is past them and are cleared.
LastFinisherOffByOne(old) == old = size

LastFinisher(old) == old = size - 1

Fin(w) ==
    /\ wpc[w] = "fin"
    /\ finished' = finished + 1
    /\ wpc' = [wpc EXCEPT ![w] = IF LastFinisher(finished) THEN "set_notif" ELSE LoopEnd(w)]
    /\ wfunc' = [wfunc EXCEPT ![w] = IF LastFinisher(finished) THEN @ ELSE 0]
    /\ wmax' = [wmax EXCEPT ![w] = 0]
    /\ UNCHANGED << poolVars, func, max, cnt, notif, lockm, glock, token, freed,
                    heapOk, widx, callerVars, ghostVars >>

\* *inner.notif_mutex.lock().unwrap() = true;
SetNotif(w) ==
    /\ wpc[w] = "set_notif"
    /\ notif' = TRUE
    /\ wpc' = [wpc EXCEPT ![w] = "notify"]
    /\ UNCHANGED << poolVars, func, max, cnt, finished, lockm, glock, token, freed,
                    heapOk, wfunc, wmax, widx, callerVars, ghostVars >>

\* inner.notif_var.notify_all(): every thread blocked in notif_var.wait is woken
\* and re-checks the flag under the mutex. When the PoolInner has been freed the
\* call writes through a dangling pointer: the heap is damaged or not.
Woken(p) == IF p = "wait" THEN "check" ELSE IF p = "d_wait" THEN "d_check" ELSE p

Notify(w) ==
    /\ wpc[w] = "notify"
    /\ cpc' = [c \in Callers |-> Woken(cpc[c])]
    /\ heapOk' \in (IF freed THEN {heapOk, FALSE} ELSE {heapOk})
    /\ wpc' = [wpc EXCEPT ![w] = LoopEnd(w)]
    /\ wfunc' = [wfunc EXCEPT ![w] = 0]
    /\ UNCHANGED << poolVars, innerVars, lockm, glock, token, freed, wmax, widx,
                    cn, cptr, upk, ghostVars >>

WorkerStep(w) ==
    \/ Park(w) \/ LoadFunc(w) \/ LoadMax(w) \/ Claim(w) \/ Call(w)
    \/ Fin(w) \/ SetNotif(w) \/ Notify(w)

\* ------------------------------------------------------------ Pool::execute
\* Mutex::lock: blocks until the mutex is free.
MutexFreeBroken(holder) == TRUE

MutexFree(holder) == holder = 0

\* let _guard = inner.lock_mutex.lock().unwrap(); then the closure is boxed
\* twice and Box::into_raw gives a pointer no earlier round had.
ExecLockNotHeld(c) ==
    /\ cpc[c] = "lock"
    /\ MutexFree(lockm)
    /\ lockm' = lockm
    /\ nrounds' = nrounds + 1
    /\ cptr' = [cptr EXCEPT ![c] = nrounds + 1]
    /\ cpc' = [cpc EXCEPT ![c] = "st_func"]
    /\ UNCHANGED << poolVars, innerVars, glock, token, freed, heapOk, workerVars,
                    cn, upk, calls, wcalls, counter, total, budget, lateWake, spur >>

ExecLock(c) ==
    /\ cpc[c] = "lock"
    /\ MutexFree(lockm)
    /\ lockm' = c
    /\ nrounds' = nrounds + 1
    /\ cptr' = [cptr EXCEPT ![c] = nrounds + 1]
    /\ cpc' = [cpc EXCEPT ![c] = "st_func"]
    /\ UNCHANGED << poolVars, innerVars, glock, token, freed, heapOk, workerVars,
                    cn, upk, calls, wcalls, counter, total, budget, lateWake, spur >>

\* inner.func.store(ptr, SeqCst)
StoreFunc(c) ==
    /\ cpc[c] = "st_func"
    /\ func' = cptr[c]
    /\ wcalls' = [w \in Workers |-> 0]
    /\ lateWake' = FALSE
    /\ cpc' = [cpc EXCEPT ![c] = "st_cnt"]
    /\ UNCHANGED << poolVars, max, cnt, finished, notif, lockm, glock, token, freed,
                    heapOk, workerVars, cn, cptr, upk, nrounds, calls, counter,
                    total, budget, spur >>

\* inner.cnt.store(0, SeqCst)
StoreCntMissing(c) ==
    /\ cpc[c] = "st_cnt"
    /\ cnt' = cnt
    /\ cpc' = [cpc EXCEPT ![c] = "st_fin"]
    /\ UNCHANGED << poolVars, func, max, finished, notif, lockm, glock, token, freed,
                    heapOk, workerVars, cn, cptr, upk, ghostVars >>

StoreCnt(c) ==
    /\ cpc[c] = "st_cnt"
    /\ cnt' = 0
    /\ cpc' = [cpc EXCEPT ![c] = "st_fin"]
    /\ UNCHANGED << poolVars, func, max, finished, notif, lockm, glock, token, freed,
                    heapOk, workerVars, cn, cptr, upk, ghostVars >>

\* inner.finished.store(0, SeqCst)
StoreFinishedMissing(c) ==
    /\ cpc[c] = "st_fin"
    /\ finished' = finished
    /\ cpc' = [cpc EXCEPT ![c] = "st_max"]
    /\ UNCHANGED << poolVars, func, max, cnt, notif, lockm, glock, token, freed,
                    heapOk, workerVars, cn, cptr, upk, ghostVars >>

StoreFinished(c) ==
    /\ cpc[c] = "st_fin"
    /\ finished' = 0
    /\ cpc' = [cpc EXCEPT ![c] = "st_max"]
    /\ UNCHANGED << poolVars, func, max, cnt, notif, lockm, glock, token, freed,
                    heapOk, workerVars, cn, cptr, upk, ghostVars >>

\* The `for thread in &self.threads` loop is entered at index 1 and left when
\* the index passes the last thread.
LoopPc(k, body, after) == IF k <= size THEN body ELSE after

\* inner.max.store(num, SeqCst)
StoreMax(c) ==
    /\ cpc[c] = "st_max"
    /\ max' = cn[c]
    /\ upk' = [upk EXCEPT ![c] = 1]
    /\ cpc' = [cpc EXCEPT ![c] = LoopPc(1, "unpark", "check")]
    /\ UNCHANGED << poolVars, func, cnt, finished, notif, lockm, glock, token, freed,
                    heapOk, workerVars, cn, cptr, ghostVars >>

\* thread.unpark(), once per thread of self.threads, in order: the token is set
\* whether or not the thread is parked.
UnparkLosesEarlyWake(c, body, after) ==
    /\ cpc[c] = body
    /\ token' = [token EXCEPT ![upk[c]] = wpc[upk[c]] = "park"]
    /\ lateWake' = (lateWake \/ wpc[upk[c]] # "park")
    /\ upk' = [upk EXCEPT ![c] = @ + 1]
    /\ cpc' = [cpc EXCEPT ![c] = LoopPc(upk[c] + 1, body, after)]

UnparkLoop(c, body, after) ==
    /\ cpc[c] = body
    /\ token' = [token EXCEPT ![upk[c]] = TRUE]
    /\ lateWake' = (lateWake \/ wpc[upk[c]] # "park")
    /\ upk' = [upk EXCEPT ![c] = @ + 1]
    /\ cpc' = [cpc EXCEPT ![c] = LoopPc(upk[c] + 1, body, after)]

Unpark(c) ==
    /\ UnparkLoop(c, "unpark", "check")
    /\ UNCHANGED << poolVars, innerVars, lockm, glock, freed, heapOk, workerVars,
                    cn, cptr, nrounds, calls, wcalls, counter, total, budget, spur >>

\* let mut notif = inner.notif_mutex.lock().unwrap();
\* while !*notif { notif = inner.notif_var.wait(notif).unwrap(); }
\* *notif = false; drop(notif);
\* The flag is tested with the mutex held; wait releases the mutex and blocks in
\* one step, so the test and the block, and the test and the reset, are atomic.
BarrierOpenBroken(flag) == TRUE

BarrierOpen(flag) == flag

WaitRound(c) ==
    /\ cpc[c] = "check"
    /\ notif' = (IF BarrierOpen(notif) THEN FALSE ELSE notif)
    /\ cpc' = [cpc EXCEPT ![c] = IF BarrierOpen(notif) THEN "clear" ELSE "wait"]
    /\ UNCHANGED << poolVars, func, max, cnt, finished, lockm, glock, token, freed,
                    heapOk, workerVars, cn, cptr, upk, ghostVars >>

\* inner.func.store(std::ptr::null_mut(), SeqCst)
ClearFuncMissing(c) ==
    /\ cpc[c] = "clear"
    /\ func' = func
    /\ cpc' = [cpc EXCEPT ![c] = "ret"]
    /\ UNCHANGED << poolVars, max, cnt, finished, notif, lockm, glock, token, freed,
                    heapOk, workerVars, cn, cptr, upk, ghostVars >>

ClearFunc(c) ==
    /\ cpc[c] = "clear"
    /\ func' = 0
    /\ cpc' = [cpc EXCEPT ![c] = "ret"]
    /\ UNCHANGED << poolVars, max, cnt, finished, notif, lockm, glock, token, freed,
                    heapOk, workerVars, cn, cptr, upk, ghostVars >>

\* execute returns: _guard is dropped
Return(c) ==
    /\ cpc[c] = "ret"
    /\ lockm' = 0
    /\ upk' = [upk EXCEPT ![c] = 0]
    /\ cpc' = [cpc EXCEPT ![c] = "returned"]
    /\ UNCHANGED << poolVars, innerVars, glock, token, freed, heapOk, workerVars,
                    cn, cptr, ghostVars >>

ExecStep(c) ==
    \/ ExecLock(c) \/ StoreFunc(c) \/ StoreCnt(c) \/ StoreFinished(c) \/ StoreMax(c)
    \/ Unpark(c) \/ WaitRound(c) \/ ClearFunc(c) \/ Return(c)

\* ------------------------------------------------- the owner of a pool value
\* pool.execute(num, func) on a pool the thread owns (&mut self): thread 1.
DirectBegin(n) ==
    /\ cpc[1] \in {"idle", "returned"}
    /\ budget > 0
    /\ budget' = budget - 1
    /\ total' = total + n
    /\ cn' = [cn EXCEPT ![1] = n]
    /\ cpc' = [cpc EXCEPT ![1] = "lock"]
    /\ UNCHANGED << poolVars, innerVars, lockm, glock, token, freed, heapOk,
                    workerVars, cptr, upk, nrounds, calls, wcalls, counter, lateWake, spur >>

\* Drop for Pool: self.inner.finished.store(0, SeqCst)
DropStartNoReset ==
    /\ cpc[1] \in {"idle", "returned"}
    /\ finished' = finished
    /\ upk' = [upk EXCEPT ![1] = 1]
    /\ cpc' = [cpc EXCEPT ![1] = LoopPc(1, "d_unpark", "d_check")]
    /\ UNCHANGED << poolVars, func, max, cnt, notif, lockm, glock, token, freed,
                    heapOk, workerVars, cn, cptr, ghostVars >>

DropStart ==
    /\ cpc[1] \in {"idle", "returned"}
    /\ finished' = 0
    /\ upk' = [upk EXCEPT ![1] = 1]
    /\ cpc' = [cpc EXCEPT ![1] = LoopPc(1, "d_unpark", "d_check")]
    /\ UNCHANGED << poolVars, func, max, cnt, notif, lockm, glock, token, freed,
                    heapOk, workerVars, cn, cptr, ghostVars >>

\* for thread in &self.threads { thread.unpark(); }
DropUnpark ==
    /\ UnparkLoop(1, "d_unpark", "d_check")
    /\ UNCHANGED << poolVars, innerVars, lockm, glock, freed, heapOk, workerVars,
                    cn, cptr, nrounds, calls, wcalls, counter, total, budget, spur >>

\* let mut guard = self.inner.notif_mutex.lock().unwrap();
\* while !*guard { guard = self.inner.notif_var.wait(guard).unwrap(); }
\* then drop returns; the flag is left set.
DropWait ==
    /\ cpc[1] = "d_check"
    /\ cpc' = [cpc EXCEPT ![1] = IF BarrierOpen(notif) THEN "d_ret" ELSE "d_wait"]
    /\ UNCHANGED << poolVars, innerVars, lockm, glock, token, freed, heapOk,
                    workerVars, cn, cptr, upk, ghostVars >>

\* After Drop::drop the fields are dropped: the Box<PoolInner> is deallocated.
Free ==
    /\ cpc[1] = "d_ret"
    /\ freed' = TRUE
    /\ cpc' = [cpc EXCEPT ![1] = "dropped"]
    /\ UNCHANGED << poolVars, innerVars, lockm, glock, token, heapOk, workerVars,
                    cn, cptr, upk, ghostVars >>

OwnerStep == ExecStep(1) \/ DropUnpark \/ DropWait \/ Free

Next ==
    \/ \E n \in 0 .. MaxN : DirectBegin(n)
    \/ DropStart
    \/ OwnerStep
    \/ \E w \in Workers : WorkerStep(w)

Spec == Init /\ [][Next]_vars

\* The operating system schedules every thread that can run; when the program
\* starts a call or drops the pool is up to the program.
Fairness ==
    /\ WF_vars(OwnerStep)
    /\ \A w \in Workers : WF_vars(WorkerStep(w))

FairSpec == Spec /\ Fairness

SpecUnder == InitUnder /\ [][Next]_vars

\* ------------------------------------------------ the process-wide execute
\* std::env::var(..).ok().and_then(|s| s.parse::<usize>().ok()) for
\* IEU_NUM_THREADS, else the same for RAYON_NUM_THREADS, else num_cpus::get().
\* NoEnv stands for None: the variable is absent (env::var is Err) or its text
\* is no usize ("abc", "-1": parse is Err).
ParseUsize(s) ==
    CASE s = "0" -> 0
      [] s = "1" -> 1
      [] s = "2" -> 2
      [] OTHER -> NoEnv

ResolveSizeRayonFirst ==
    IF ParseUsize(envRayon) # NoEnv THEN ParseUsize(envRayon)
    ELSE IF ParseUsize(envIeu) # NoEnv THEN ParseUsize(envIeu)
    ELSE cpus

ResolveSize ==
    IF ParseUsize(envIeu) # NoEnv THEN ParseUsize(envIeu)
    ELSE IF ParseUsize(envRayon) # NoEnv THEN ParseUsize(envRayon)
    ELSE cpus

\* A thread calls execute(num, func) and reaches GLOBAL.lock().
GlobalBegin(c, n) ==
    /\ cpc[c] = "idle"
    /\ budget > 0
    /\ budget' = budget - 1
    /\ total' = total + n
    /\ cn' = [cn EXCEPT ![c] = n]
    /\ cpc' = [cpc EXCEPT ![c] = "g_lock"]
    /\ UNCHANGED << poolVars, innerVars, lockm, glock, token, freed, heapOk,
                    workerVars, cptr, upk, nrounds, calls, wcalls, counter, lateWake, spur >>

\* GLOBAL.lock().unwrap()
GlobalLock(c) ==
    /\ cpc[c] = "g_lock"
    /\ MutexFree(glock)
    /\ glock' = c
    /\ cpc' = [cpc EXCEPT ![c] = "g_init"]
    /\ UNCHANGED << poolVars, innerVars, lockm, token, freed, heapOk, workerVars,
                    cn, cptr, upk, ghostVars >>

\* .get_or_insert_with(|| Pool::new(size)): the pool is built when GLOBAL holds
\* None and left alone otherwise.
GlobalInit(c) ==
    /\ cpc[c] = "g_init"
    /\ created' = TRUE
    /\ size' = IF created THEN size ELSE ResolveSize
    /\ wpc' = IF created THEN wpc ELSE Spawned(ResolveSize)
    /\ cpc' = [cpc EXCEPT ![c] = "lock"]
    /\ UNCHANGED << envIeu, envRayon, cpus, innerVars, lockm, glock, token, freed,
                    heapOk, wfunc, wmax, widx, cn, cptr, upk, ghostVars >>

\* Pool::execute returned: the MutexGuard of GLOBAL, a temporary of the
\* statement, is dropped.
GlobalUnlock(c) ==
    /\ cpc[c] = "returned"
    /\ glock' = 0
    /\ cpc' = [cpc EXCEPT ![c] = "idle"]
    /\ UNCHANGED << poolVars, innerVars, lockm, token, freed, heapOk, workerVars,
                    cn, cptr, upk, ghostVars >>

NextGlobal ==
    \/ \E c \in Callers, n \in 0 .. MaxN : GlobalBegin(c, n)
    \/ \E c \in Callers : GlobalLock(c) \/ GlobalInit(c) \/ ExecStep(c) \/ GlobalUnlock(c)
    \/ \E w \in Workers : WorkerStep(w)

SpecGlobal == InitGlobal /\ [][NextGlobal]_vars

\* The same program in an environment that changes while it runs: some thread
\* calls std::env::set_var or remove_var between any two steps.
IeuTexts == {"unset", "abc", "0"}
RayonTexts == {"unset", "-1", "1"}

InitEnv ==
    /\ InitCommon
    /\ size = 0
    /\ created = FALSE
    /\ envIeu \in IeuTexts
    /\ envRayon \in RayonTexts
    /\ cpus = 2
    /\ wpc = Spawned(0)
    /\ budget = 2

SetEnv(i, r) ==
    /\ << i, r >> # << envIeu, envRayon >>
    /\ envIeu' = i
    /\ envRayon' = r
    /\ UNCHANGED << size, created, cpus, innerVars, lockm, glock, token, freed,
                    heapOk, workerVars, callerVars, ghostVars >>

NextEnv ==
    \/ NextGlobal
    \/ \E i \in IeuTexts, r \in RayonTexts : SetEnv(i, r)

SpecEnv == InitEnv /\ [][NextEnv]_vars

\* ================================================================= claims
\* Positions of a caller inside Pool::execute with lock_mutex held.
ExecPcs == {"st_func", "st_cnt", "st_fin", "st_max", "unpark", "check", "wait",
            "clear", "ret"}

\* Positions at which the caller has published its round and not yet seen the
\* barrier close.
OpenPcs == {"st_func", "st_cnt", "st_fin", "st_max", "unpark", "check", "wait"}

\* Round r's closure was invoked once with each index below n and with no other.
ExactlyOnce(r, n) == \A i \in Indices : calls[r][i] = (IF i < n THEN 1 ELSE 0)

\* Worker w holds round r's closure and can still call it.
WillCall(w, r) == wfunc[w] = r /\ wpc[w] \in {"load_max", "claim", "call"}

\* Worker w is about to load inner.func.
MayLoad(w) == wpc[w] = "load_func" \/ (wpc[w] = "park" /\ token[w])

RECURSIVE SumCalls(_)
SumCalls(S) ==
    IF S = {} THEN 0
    ELSE LET w == CHOOSE x \in S : TRUE IN wcalls[w] + SumCalls(S \ {w})

\* ------------------------------------------------------------------- C1
\* C1: when Pool::execute(n, f) has returned, f was invoked exactly once with
\* each index in [0, n) and never with any other index, whatever the
\* interleaving of the workers.
C1_CoverageUniqueness ==
    \A c \in Callers :
        cpc[c] \in {"ret", "returned"} => ExactlyOnce(cptr[c], cn[c])

C1_Witness ==
    /\ size = MaxWorkers
    /\ cpc[1] = "returned"
    /\ nrounds = MaxRounds
    /\ cn[1] = MaxN
    /\ ExactlyOnce(cptr[1], MaxN)
    /\ \A w \in Live : wcalls[w] > 0

\* ------------------------------------------------------------------- C2
\* C2: when execute stores null into func, and from then on, no worker is
\* inside an invocation of the round's closure, none still holds the closure
\* with a claim or a call ahead, and none will load it: the barrier closed
\* after the last invocation completed.
C2_BlockingContract ==
    /\ \A c \in Callers :
           cpc[c] = "clear" =>
               \A w \in Workers : ~WillCall(w, cptr[c]) /\ ~MayLoad(w)
    /\ \A c \in Callers :
           cpc[c] \in {"ret", "returned"} =>
               /\ func # cptr[c]
               /\ \A w \in Workers : ~WillCall(w, cptr[c])
    /\ \A w \in Workers, r \in Rounds :
           WillCall(w, r) => \E c \in Callers : cptr[c] = r /\ cpc[c] \in OpenPcs

C2_Witness ==
    /\ cpc[1] = "clear"
    /\ size = MaxWorkers
    /\ cn[1] = MaxN
    /\ ExactlyOnce(cptr[1], MaxN)
    /\ \E w \in Live : wpc[w] = "notify"

\* ------------------------------------------------------------------- C3
\* C3: on a pool with at least one worker every call of execute eventually
\* returns when the threads are scheduled fairly, also a later round whose
\* unpark reaches a worker that has not parked again yet.
C3_RoundTerminates ==
    (size >= 1 /\ cpc[1] = "lock") ~> (cpc[1] = "returned")

C3_Witness ==
    /\ size >= 1
    /\ cpc[1] = "returned"
    /\ nrounds >= 2
    /\ lateWake

\* ------------------------------------------------------------------- C4
\* C4: execute(0, f) returns, and without any invocation of f: every worker
\* was woken, made one failing claim and incremented finished.
C4_ZeroCase ==
    /\ [](cpc[1] = "returned" /\ cn[1] = 0 =>
              /\ ExactlyOnce(cptr[1], 0)
              /\ cnt = size
              /\ finished = size)
    /\ ((cpc[1] = "lock" /\ cn[1] = 0) ~> (cpc[1] = "returned"))

\* The zero case on pools that have workers.
C4_ZeroCaseWithWorkers ==
    /\ [](size >= 1 /\ cpc[1] = "returned" /\ cn[1] = 0 =>
              /\ ExactlyOnce(cptr[1], 0)
              /\ cnt = size
              /\ finished = size)
    /\ ((size >= 1 /\ cpc[1] = "lock" /\ cn[1] = 0) ~> (cpc[1] = "returned"))

\* ------------------------------------------------------------------- C5
\* C5: after sequential calls execute(n1, g) .. execute(nk, g) on one pool,
\* g incrementing a shared counter, the counter is n1 + .. + nk; between
\* calls it is the sum of the calls made so far.
C5_CumulativeCounter ==
    /\ cpc[1] \notin ({"lock"} \cup ExecPcs) => counter = total
    /\ counter <= total

C5_Witness ==
    /\ cpc[1] = "returned"
    /\ nrounds = MaxRounds
    /\ size = MaxWorkers
    /\ counter = MaxRounds * MaxN
    /\ counter = total

\* ------------------------------------------------------------------- C6
Invokers == {w \in Live : wcalls[w] > 0}

\* C6 as stated: with 4 workers and n = 2, exactly 2 workers invoke f once
\* each and the other 2 invoke it zero times.
C6_TwoWorkersOnceEach ==
    (size = 4 /\ cpc[1] = "returned" /\ cn[1] = 2) =>
        /\ Cardinality({w \in Live : wcalls[w] = 1}) = 2
        /\ Cardinality({w \in Live : wcalls[w] = 0}) = 2

\* C6 amended: with 4 workers and n = 2, f is invoked twice in all, once with
\* index 0 and once with index 1, by one or two workers (one worker may claim
\* both); at least 2 workers invoke f zero times, and all 4 increment finished.
C6_UnderSubscription ==
    (size = 4 /\ cpc[1] = "returned" /\ cn[1] = 2) =>
        /\ ExactlyOnce(cptr[1], 2)
        /\ SumCalls(Live) = 2
        /\ Cardinality(Invokers) \in {1, 2}
        /\ Cardinality(Live \ Invokers) >= 2
        /\ finished = size

C6_Witness ==
    /\ size = 4 /\ cpc[1] = "returned" /\ cn[1] = 2
    /\ \E w \in Live : wcalls[w] = 2
    /\ Cardinality(Live \ Invokers) = 3

\* ------------------------------------------------------------------- C7
\* C7: rounds submitted concurrently through the process-wide execute are
\* serialized: at most one caller is inside Pool::execute's critical section,
\* every running invocation belongs to the one published round whose caller
\* has not yet seen its barrier close, and a round is only ever invoked while
\* it is that round.
C7_RoundSerialization ==
    /\ Cardinality({c \in Callers : cpc[c] \in ExecPcs}) <= 1
    /\ \A w \in Workers :
           wpc[w] = "call" =>
               /\ func = wfunc[w]
               /\ \E c \in Callers :
                      cptr[c] = wfunc[w] /\ lockm = c /\ glock = c
                      /\ cpc[c] \in {"unpark", "check", "wait"}
    /\ \A c \in Callers :
           cpc[c] \in {"g_lock", "g_init", "lock"} =>
               \A r \in Rounds : r > nrounds => calls[r] = [i \in Indices |-> 0]

C7_Witness ==
    \E a \in Callers, b \in Callers :
        /\ a # b
        /\ cpc[a] = "g_lock"
        /\ cpc[b] \in {"unpark", "check", "wait"}
        /\ cn[a] > 0 /\ cn[b] > 0
        /\ \E w \in Live : wpc[w] = "call" /\ wfunc[w] = cptr[b]

\* ------------------------------------------------------------------- C8
\* C8: on a pool built with size 0 every call of execute returns, with no
\* invocation of f.
C8_ZeroWorkerPool ==
    /\ [](size = 0 => counter = 0)
    /\ ((size = 0 /\ cpc[1] = "lock") ~> (cpc[1] = "returned"))

\* ------------------------------------------------------------------- C9
\* C9: dropping a pool with at least one worker and no round in flight does
\* not hang: Drop returns and every worker thread leaves its closure.
C9_CleanShutdown ==
    (size >= 1 /\ cpc[1] \in {"d_unpark", "d_check"})
        ~> (cpc[1] = "dropped" /\ \A w \in Live : wpc[w] = "done")

C9_Witness ==
    /\ size = MaxWorkers
    /\ nrounds >= 1
    /\ cpc[1] = "dropped"
    /\ \A w \in Live : wpc[w] = "done"

\* ------------------------------------------------------------------ C10
\* C10: Drop of a pool with zero workers returns without blocking: it never
\* blocks in notif_var.wait.
C10_ZeroWorkerDrop ==
    size = 0 => cpc[1] # "d_wait"

\* ------------------------------------------------------------------ C11
\* Positions of the owner inside Drop::drop, and after it has returned.
DropPcs == {"d_unpark", "d_check", "d_wait"}
DroppedPcs == {"d_ret", "dropped"}

\* C11: when Drop for Pool has returned every worker has left its loop: none
\* is still between its increment of finished and the return of its closure.
C11_DropWaitsForExit ==
    cpc[1] \in DroppedPcs => \A w \in Live : wpc[w] = "done"

\* ------------------------------------------------------------------ C13
\* Statements of the worker closure that read or write the PoolInner.
AccessPcs == {"load_func", "load_max", "claim", "fin", "set_notif", "notify"}

\* C13: once the PoolInner has been freed no worker is at a statement that
\* accesses it (no load of func, no fetch_add, no lock of notif_mutex, no
\* notify_all), and the heap is never written through the dangling pointer.
C13_NoUseAfterFree ==
    freed => (heapOk /\ \A w \in Live : wpc[w] \notin AccessPcs)

\* ------------------------------------------------------------------ C12
\* The worker count the environment asks for: IEU_NUM_THREADS when it is a
\* number, else RAYON_NUM_THREADS when it is a number, else the CPU count.
WantedSize ==
    CASE envIeu = "0" -> 0
      [] envIeu # "0" /\ envRayon = "1" -> 1
      [] OTHER -> cpus

\* C12: the global pool is built at most once, by the first call of the
\* process-wide execute, with the worker count the environment asks for at that
\* moment; afterwards it is never rebuilt and its size never changes, whatever
\* happens to the environment.
C12_GlobalPoolOnce ==
    [][ /\ (created => created' /\ size' = size)
        /\ (~created /\ created' =>
               /\ nrounds = 0
               /\ \E c \in Callers : cpc[c] = "g_init" /\ glock = c
               /\ size' = WantedSize
               /\ \A w \in Workers : wpc'[w] = (IF w <= WantedSize THEN "park" ELSE "unspawned"))
        /\ (~created => size = 0 /\ \A c \in Callers : cpc[c] \in {"idle", "g_lock", "g_init"})
      ]_vars

C12_Witness ==
    /\ created
    /\ size = 1
    /\ envIeu = "0" /\ envRayon = "unset"
    /\ nrounds = 2
    /\ \E c \in Callers : cpc[c] = "returned" /\ cptr[c] = 2 /\ cn[c] > 0
                          /\ ExactlyOnce(2, cn[c])

\* ------------------------------------------------------------------ C14
\* Positions of a worker between the return of park and its fetch_add on
\* finished.
RacingPcs == {"load_func", "load_max", "claim", "call", "fin"}

\* Worker w has yet to increment finished for the round being counted: it has
\* not been unparked yet, or it holds its wake-up, or it is racing.
Pending(w) ==
    \/ token[w]
    \/ wpc[w] \in RacingPcs
    \/ \E c \in Callers : cpc[c] = "st_max"
    \/ \E c \in Callers : cpc[c] \in {"unpark", "d_unpark"} /\ w >= upk[c]

\* finished has been reset for a round (a published one or the shutdown round)
\* and not yet for the next.
Counting ==
    \E c \in Callers :
        cpc[c] \in {"st_max", "unpark", "check", "wait", "clear", "ret", "returned"}
                   \cup DropPcs \cup DroppedPcs

\* C14: in every round, the shutdown round included, each worker increments
\* finished exactly once, so finished never exceeds the worker count; the notif
\* flag is set by one worker only, the one whose increment made finished equal
\* to the worker count, and never while a worker is still racing or inside f.
C14_BarrierExactness ==
    /\ finished <= size
    /\ Counting => finished = Cardinality({w \in Live : ~Pending(w)})
    /\ Cardinality({w \in Live : wpc[w] \in {"set_notif", "notify"}}) <= 1
    /\ \A w \in Live :
           wpc[w] = "set_notif" =>
               /\ finished = size
               /\ ~notif
               /\ \A v \in Live : wpc[v] \notin RacingPcs
    /\ notif =>
           /\ finished = size
           /\ \A v \in Live : wpc[v] \notin RacingPcs /\ wpc[v] # "set_notif"
           /\ \E c \in Callers : cpc[c] \in {"check", "wait", "d_check", "d_wait"} \cup DroppedPcs

C14_Witness ==
    /\ size = MaxWorkers
    /\ nrounds = MaxRounds
    /\ cpc[1] = "d_wait"
    /\ finished = size
    /\ \E w \in Live : wpc[w] = "set_notif"
    /\ \A w \in Live : wpc[w] \in {"set_notif", "done"}

\* ------------------------------------------------------------------ C15
\* No call of execute is in flight: no thread is between its call of
\* Pool::execute and the return of that call.
NoCallInFlight == \A c \in Callers : cpc[c] \notin ({"lock"} \cup ExecPcs)

\* func is non-null only for the round of the one caller that holds lock_mutex
\* and is between its func.store(ptr) and its func.store(null).
OnePublishedRound ==
    func # 0 =>
        \E c \in Callers :
            /\ lockm = c
            /\ cptr[c] = func
            /\ cpc[c] \in ExecPcs \ {"st_func", "ret"}
            /\ \A d \in Callers \ {c} : cpc[d] \notin ExecPcs

\* C15 as stated: at most one round is published at any time, and whenever no
\* execute call is in flight func is null and the notif flag is false.
C15_SinglePublishedRound ==
    /\ OnePublishedRound
    /\ NoCallInFlight => (func = 0 /\ ~notif)

\* C15 amended: at most one round is published at any time, and whenever no
\* execute call is in flight func is null; the notif flag is false then until
\* Drop's shutdown round sets it, and Drop leaves it set.
C15_SinglePublishedRoundUntilDrop ==
    /\ OnePublishedRound
    /\ NoCallInFlight => func = 0
    /\ (NoCallInFlight /\ notif) => cpc[1] \in {"d_check", "d_wait"} \cup DroppedPcs
    /\ cpc[1] \in DroppedPcs => notif

C15_Witness ==
    /\ size = MaxWorkers
    /\ nrounds = MaxRounds
    /\ cpc[1] = "d_unpark"
    /\ func = 0 /\ ~notif
    /\ \E w \in Live : wpc[w] = "load_func"

\* ------------------------------------------------------------------ C16
\* No worker is mid-round: every worker is parked with no wake-up pending, or
\* is past its increment of finished for the previous barrier (setting the
\* flag or notifying) and on its way to park.
NoWorkerMidRound ==
    \A w \in Live : wpc[w] \in {"park", "set_notif", "notify"} /\ ~token[w]

\* C16: cnt changes only by +1, in the fetch_add of one worker's claim; the
\* store of 0 is made only by execute, by the thread that holds lock_mutex,
\* while no worker is mid-round.
C16_CursorDiscipline ==
    [][ /\ cnt' # cnt =>
              \/ /\ cnt' = cnt + 1
                 /\ \E w \in Live : wpc[w] = "claim" /\ wpc'[w] \in {"call", "fin"}
              \/ /\ cnt' = 0
                 /\ \E c \in Callers : cpc[c] = "st_cnt" /\ cpc'[c] = "st_fin"
        /\ \A c \in Callers :
              (cpc[c] = "st_cnt" /\ cpc'[c] = "st_fin") =>
                  /\ cnt' = 0
                  /\ lockm = c
                  /\ NoWorkerMidRound ]_vars

C16_Witness ==
    /\ size = MaxWorkers
    /\ nrounds = MaxRounds
    /\ cpc[1] = "st_fin"
    /\ cnt = 0
    /\ total > 0
    /\ \E w \in Live : wpc[w] = "notify"

\* ------------------------------------------------------------------ C17
\* Thread c makes one of execute's stores (func, cnt, finished, max, func).
ExecStore(c) ==
    /\ cpc[c] \in {"st_func", "st_cnt", "st_fin", "st_max", "clear"}
    /\ cpc'[c] # cpc[c]

\* The owner makes Drop's finished.store(0).
DropStore == cpc[1] \notin DropPcs \cup DroppedPcs /\ cpc'[1] = "d_unpark"

\* A step of worker w leaves func and max alone and changes cnt and finished
\* only by a fetch_add of 1, at its claim and at its increment of finished.
WorkerWrites(w) ==
    wpc'[w] # wpc[w] =>
        /\ func' = func
        /\ max' = max
        /\ cnt' = (IF wpc[w] = "claim" THEN cnt + 1 ELSE cnt)
        /\ finished' = (IF wpc[w] = "fin" THEN finished + 1 ELSE finished)

\* func, max or cnt is stored to (every store other than a worker's fetch_add).
PublishStore ==
    \/ func' # func
    \/ max' # max
    \/ cnt' # cnt /\ cnt' # cnt + 1

FinishedStore == finished' # finished /\ finished' # finished + 1

\* C17 as stated: workers only read func and max and only fetch_add the
\* counters; every store to func and max and every reset of cnt and finished
\* is made by a thread that holds lock_mutex, in execute and in Drop alike.
C17_WriterDiscipline ==
    [][ /\ \A w \in Live : WorkerWrites(w)
        /\ (PublishStore \/ FinishedStore \/ DropStore \/ \E c \in Callers : ExecStore(c)) =>
              \E c \in Callers : lockm = c /\ (ExecStore(c) \/ (c = 1 /\ DropStore)) ]_vars

\* C17 amended: as above for execute; Drop's reset of finished is made by the
\* owner of the pool without lock_mutex, while no call of execute is in flight.
C17_WriterDisciplineDropUnlocked ==
    [][ /\ \A w \in Live : WorkerWrites(w)
        /\ (PublishStore \/ \E c \in Callers : ExecStore(c)) =>
              \E c \in Callers : lockm = c /\ ExecStore(c)
        /\ FinishedStore =>
              \/ \E c \in Callers : lockm = c /\ cpc[c] = "st_fin" /\ ExecStore(c)
              \/ DropStore
        /\ DropStore => (lockm = 0 /\ lockm' = 0 /\ finished' = 0 /\ NoCallInFlight) ]_vars

C17_Witness ==
    /\ size = MaxWorkers
    /\ nrounds = MaxRounds
    /\ cpc[1] = "d_unpark"
    /\ upk[1] = 1
    /\ finished = 0
    /\ lockm = 0
    /\ \A w \in Live : wpc[w] = "park"

\* ------------------------------------------------------- a closure that fails
\* (unsafe { &*func })(cnt) panics: the worker thread unwinds out of its
\* closure and ends; it never reaches its finished.fetch_add. No guard of the
\* pool is held by the worker at the call, so no mutex is poisoned.
PanicCounted(w) ==
    /\ wpc[w] = "call"
    /\ wpc' = [wpc EXCEPT ![w] = "dead"]
    /\ widx' = [widx EXCEPT ![w] = 0]
    /\ finished' = finished + 1
    /\ UNCHANGED << poolVars, func, max, cnt, notif, lockm, glock, token, freed,
                    heapOk, wfunc, wmax, callerVars, ghostVars >>

Panic(w) ==
    /\ wpc[w] = "call"
    /\ wpc' = [wpc EXCEPT ![w] = "dead"]
    /\ widx' = [widx EXCEPT ![w] = 0]
    /\ UNCHANGED << poolVars, innerVars, lockm, glock, token, freed, heapOk, wfunc,
                    wmax, callerVars, ghostVars >>

NextPanic ==
    \/ Next
    \/ \E w \in Workers : Panic(w)

SpecPanic == Init /\ [][NextPanic]_vars

\* ------------------------------------------------------------------ C18
Dead == {w \in Live : wpc[w] = "dead"}

\* C18: once a worker has died inside f, finished stays below size, the notif
\* flag stays false, and the caller of that round stays inside execute before
\* the end of its wait, holding lock_mutex: it never returns and nobody else
\* completes the round (a worker still at notify_all is the last finisher of
\* the round before).
C18_FailureDeadlocksRound ==
    Dead # {} =>
        /\ finished < size
        /\ finished <= size - Cardinality(Dead)
        /\ ~notif
        /\ \A w \in Live : wpc[w] \notin {"set_notif", "done"}
        /\ cpc[1] \in {"unpark", "check", "wait"}
        /\ lockm = 1
        /\ func = cptr[1]
        /\ \A w \in Dead : wfunc[w] = func

C18_Witness ==
    /\ size = MaxWorkers
    /\ nrounds = MaxRounds
    /\ Cardinality(Dead) = 1
    /\ \A w \in Live \ Dead : wpc[w] = "park" /\ ~token[w]
    /\ finished = size - 1
    /\ cpc[1] = "wait"

\* ------------------------------------------------- park returning spuriously
\* std::thread::park(): "It may also return spuriously, without consuming the
\* permit". The worker calls park once per turn of its loop with no condition
\* around it, so after such a return it goes on to func.load. At most
\* MaxSpurious such returns happen in a run of the model.
SpuriousPark(w) ==
    /\ wpc[w] = "park"
    /\ ~token[w]
    /\ spur < MaxSpurious
    /\ spur' = spur + 1
    /\ wpc' = [wpc EXCEPT ![w] = "load_func"]
    /\ UNCHANGED << poolVars, innerVars, lockm, glock, token, freed, heapOk, wfunc,
                    wmax, widx, callerVars, nrounds, calls, wcalls, counter, total,
                    budget, lateWake >>

NextSpurious ==
    \/ Next
    \/ \E w \in Workers : SpuriousPark(w)

SpecSpurious == Init /\ [][NextSpurious]_vars

\* ------------------------------------------------------------------ C19
\* Drop for Pool has not started.
PoolAlive == cpc[1] \notin DropPcs \cup DroppedPcs

\* C19: while Drop has not started no worker has left its loop or is on the
\* null branch, and a worker increments finished only for the round that is
\* published at that moment, also when park returns without an unpark.
C19_NoExitOutsideTeardown ==
    PoolAlive =>
        \A w \in Live :
            /\ wpc[w] # "done"
            /\ wpc[w] \in {"load_max", "claim", "call", "fin"} =>
                   (wfunc[w] # 0 /\ wfunc[w] = func)

====
